---------------------------- MODULE Spec2Model ----------------------------
(***************************************************************************)
(* A model of src/main.go: the four Todo handlers (fetchTodos, createTodo, *)
(* deleteTodo, updateTodo) over one MongoDB collection, and the server     *)
(* lifecycle of main (signal.Notify, ListenAndServe, Shutdown).            *)
(*                                                                         *)
(* Strings that the code inspects character by character (the {id} path    *)
(* parameter) are sequences of one-character strings.  A bson.ObjectId is  *)
(* a sequence of 12 bytes.  A stored document is a record whose domain is  *)
(* the set of fields the document holds.                                   *)
(***************************************************************************)
EXTENDS Integers, Sequences, FiniteSets, TLC

VARIABLES
    collection,       \* db.C("Todo"): the documents, in natural order
    objectIdCounter,  \* the process-wide counter behind bson.NewObjectId
    now,              \* the wall clock read by time.Now(), in seconds
    request,          \* the last request a handler served
    response,         \* the response that request got
    storageOps,       \* the calls that request made on the collection
    created,          \* number of create requests answered 201
    deleted,          \* number of delete requests answered 200
    mainPc,           \* position of func main
    listener,         \* the state of srv's listening socket
    inflight,         \* connections with a request being served
    idle,             \* kept-alive connections with no request
    graceElapsed,     \* seconds since srv.Shutdown(ctx) was called
    signalled         \* an interrupt was delivered after signal.Notify

vars == <<collection, objectIdCounter, now, request, response, storageOps,
          created, deleted, mainPc, listener, inflight, idle,
          graceElapsed, signalled>>

todoVars == <<collection, objectIdCounter, now, request, response,
              storageOps, created, deleted>>

lifeVars == <<mainPc, listener, inflight, idle, graceElapsed, signalled>>

---------------------------------------------------------------------------
(* Bounds of the model. *)

\* createTodo is not taken once this many object ids have been generated.
MaxCreates == 2

\* The latest time the clock shows.
MaxClock == 2

\* The server holds at most this many connections.
MaxConns == 4

---------------------------------------------------------------------------
(* HTTP status codes used by the handlers (net/http constants). *)

StatusProcessing == 102
StatusOK == 200
StatusCreated == 201
StatusBadRequest == 400

\* time.Time{}: what a missing createdAt decodes to.
ZeroTime == 0

\* Line 237: the timeout of the shutdown context, in seconds.
GracePeriod == 5

---------------------------------------------------------------------------
(* Sequences. *)

Range(s) == {s[i] : i \in 1..Len(s)}

---------------------------------------------------------------------------
(* bson.ObjectId, its hex form, and strings.TrimSpace. *)

HexDigits == <<"0", "1", "2", "3", "4", "5", "6", "7",
               "8", "9", "a", "b", "c", "d", "e", "f">>

UpperHexDigits == <<"0", "1", "2", "3", "4", "5", "6", "7",
                    "8", "9", "A", "B", "C", "D", "E", "F">>

HexChars == Range(HexDigits) \cup Range(UpperHexDigits)

IsHexChar(c) == c \in HexChars

\* encoding/hex fromHexChar: the value of each hex character.
HexVal ==
    [c \in HexChars |->
        IF c \in Range(HexDigits)
        THEN (CHOOSE i \in 1..16 : HexDigits[i] = c) - 1
        ELSE (CHOOSE i \in 1..16 : UpperHexDigits[i] = c) - 1]

\* ObjectId.Hex(): two lower-case hex characters per byte.
Hex(oid) ==
    [k \in 1..(2 * Len(oid)) |->
        IF k % 2 = 1
        THEN HexDigits[(oid[(k + 1) \div 2] \div 16) + 1]
        ELSE HexDigits[(oid[k \div 2] % 16) + 1]]

\* bson.IsObjectIdHex: 24 characters that hex.DecodeString accepts.
IsObjectIdHex(s) ==
    /\ Len(s) = 24
    /\ \A i \in 1..Len(s) : IsHexChar(s[i])

\* bson.ObjectIdHex: the 12 bytes a valid hex id stands for.
ObjectIdHex(s) ==
    [i \in 1..(Len(s) \div 2) |-> 16 * HexVal[s[2 * i - 1]] + HexVal[s[2 * i]]]

IsSpace(c) == c \in {" ", "\t", "\n", "\r"}

RECURSIVE TrimLeft(_)
TrimLeft(s) ==
    IF s # <<>> /\ IsSpace(Head(s)) THEN TrimLeft(Tail(s)) ELSE s

RECURSIVE TrimRight(_)
TrimRight(s) ==
    IF s # <<>> /\ IsSpace(s[Len(s)])
    THEN TrimRight(SubSeq(s, 1, Len(s) - 1))
    ELSE s

\* strings.TrimSpace
TrimSpace(s) == TrimRight(TrimLeft(s))

\* The machine id (3 bytes) and process id (2 bytes) of this process.
MachineAndPid == <<171, 205, 239, 18, 52>>

\* The `width` low bytes of n, most significant first.
BigEndian(n, width) ==
    [i \in 1..width |-> (n \div (256 ^ (width - i))) % 256]

\* bson.NewObjectId: 4 bytes of time, 5 of machine and pid, and the 3 low
\* bytes of the incremented counter.
NewObjectId(time, counter) ==
    BigEndian(time, 4) \o MachineAndPid \o BigEndian(counter, 3)

---------------------------------------------------------------------------
(* JSON request bodies and json.Decoder.Decode into a Todo. *)

\* A body is text that is a JSON object with some members, or is not.
JsonObject(members) == [syntaxOk |-> TRUE, members |-> members]

Garbage == [syntaxOk |-> FALSE, members |-> [raw |-> "{"]]

\* The body of a request whose handler never reads it.
NoBody == [syntaxOk |-> FALSE, members |-> [raw |-> ""]]

Member(obj, name, zero) == IF name \in DOMAIN obj THEN obj[name] ELSE zero

\* Decode: an error for a body that is not JSON, else the members present
\* are stored and the others keep their zero value.
Decode(body) ==
    IF ~body.syntaxOk
    THEN [err |-> TRUE, t |-> [ID |-> <<>>, Title |-> "", Completed |-> FALSE]]
    ELSE [err |-> FALSE,
          t |-> [ID        |-> <<>>,
                 Title     |-> Member(body.members, "title", ""),
                 Completed |-> Member(body.members, "completed", FALSE)]]

---------------------------------------------------------------------------
(* The collection: mgo's Find/All, Insert, RemoveId and Update, on a       *)
(* session in safe mode (mgo.Dial's default).  `fails` is the environment: *)
(* the database refuses the call (lost connection) and nothing is stored.  *)

NoError == "nil"
ErrNotFound == "not found"
ErrDatabase == "database error"
ErrDuplicateKey == "duplicate key"

Exists(coll, oid) == \E i \in 1..Len(coll) : coll[i]._id = oid

\* Find(bson.M{}).All(&todos): every document, in natural order.
FindAll(coll, fails) ==
    IF fails THEN [err |-> ErrDatabase, docs |-> <<>>]
    ELSE [err |-> NoError, docs |-> coll]

\* Insert(&tm): the document is appended; _id is a unique key.
Insert(coll, doc, fails) ==
    IF fails THEN [err |-> ErrDatabase, coll |-> coll]
    ELSE IF Exists(coll, doc._id) THEN [err |-> ErrDuplicateKey, coll |-> coll]
    ELSE [err |-> NoError, coll |-> Append(coll, doc)]

RemoveIdIgnoringMissing(coll, oid, fails) ==
    IF fails THEN [err |-> ErrDatabase, coll |-> coll]
    ELSE [err |-> NoError,
          coll |-> SelectSeq(coll, LAMBDA d : d._id # oid)]

\* RemoveId(id): ErrNotFound when no document has that _id.
RemoveId(coll, oid, fails) ==
    IF fails THEN [err |-> ErrDatabase, coll |-> coll]
    ELSE IF ~Exists(coll, oid) THEN [err |-> ErrNotFound, coll |-> coll]
    ELSE [err |-> NoError,
          coll |-> SelectSeq(coll, LAMBDA d : d._id # oid)]

\* An update document without $-operators replaces the matched document:
\* the result holds the old _id and exactly the fields of `update`.
Replace(doc, update) ==
    [f \in {"_id"} \cup DOMAIN update |->
        IF f = "_id" THEN doc._id ELSE update[f]]

UpdateIgnoringMissing(coll, oid, update, fails) ==
    IF fails THEN [err |-> ErrDatabase, coll |-> coll]
    ELSE [err |-> NoError,
          coll |-> [i \in 1..Len(coll) |->
                      IF coll[i]._id = oid THEN Replace(coll[i], update)
                      ELSE coll[i]]]

\* Update(selector {_id: oid}, update): ErrNotFound when nothing matches.
Update(coll, oid, update, fails) ==
    IF fails THEN [err |-> ErrDatabase, coll |-> coll]
    ELSE IF ~Exists(coll, oid) THEN [err |-> ErrNotFound, coll |-> coll]
    ELSE [err |-> NoError,
          coll |-> [i \in 1..Len(coll) |->
                      IF coll[i]._id = oid THEN Replace(coll[i], update)
                      ELSE coll[i]]]

\* A stored document decoded into a TodoModel: a field the document does
\* not hold keeps its zero value.
TodoModel(doc) ==
    [ID        |-> doc._id,
     Title     |-> Member(doc, "title", ""),
     Completed |-> Member(doc, "completed", FALSE),
     CreatedAt |-> Member(doc, "createdAt", ZeroTime)]

\* fetchTodos' loop: the Todo (wire form) of each TodoModel.
TodoList(docs) ==
    [i \in 1..Len(docs) |->
        [ID        |-> Hex(TodoModel(docs[i]).ID),
         Title     |-> TodoModel(docs[i]).Title,
         Completed |-> TodoModel(docs[i]).Completed,
         CreatedAt |-> TodoModel(docs[i]).CreatedAt]]

---------------------------------------------------------------------------
(* Responses.  rnd.JSON writes a status and a JSON body; a handler that    *)
(* returns without writing leaves net/http to send 200 with no body.       *)

Json(status, message) ==
    [written |-> TRUE, status |-> status, message |-> message,
     todo_id |-> <<>>, data |-> <<>>]

NothingWritten ==
    [written |-> FALSE, status |-> StatusOK, message |-> "",
     todo_id |-> <<>>, data |-> <<>>]

NoRequest == [handler |-> "none", id |-> <<>>, body |-> NoBody]

Call(op, err) == [op |-> op, err |-> err]

---------------------------------------------------------------------------
(* The inputs of the requests. *)

Bodies ==
    {Garbage,
     JsonObject([title |-> ""]),
     JsonObject([title |-> "a"]),
     JsonObject([title |-> "b", completed |-> TRUE])}

StoredIds == {collection[i]._id : i \in 1..Len(collection)}

\* An object id no document has: the one NewObjectId would give next.
FreshId == NewObjectId(MaxClock, objectIdCounter + 1)

Upper(s) == [i \in 1..Len(s) |-> UpperHexDigits[HexVal[s[i]] + 1]]

\* The hex form of the stored ids and of one id that is not stored; the
\* first stored id also in upper case between white space.
WellFormedParams ==
    {Hex(o) : o \in StoredIds \cup {FreshId}}
        \cup {<<" ">> \o Upper(Hex(collection[i]._id)) \o <<"\t">> :
                 i \in 1..Len(collection) \cap {1}}

\* Too short, and 24 characters of which one is no hex digit.
MalformedParams ==
    {SubSeq(Hex(FreshId), 1, 23), [Hex(FreshId) EXCEPT ![24] = "g"]}

PathParams == WellFormedParams \cup MalformedParams

---------------------------------------------------------------------------
(* The handlers run in a process that is serving. *)

Running == mainPc \in {"waiting", "received", "shuttingDown"}

---------------------------------------------------------------------------
(* fetchTodos *)

FetchTodos(dbFails) ==
    LET found == FindAll(collection, dbFails) IN
    /\ Running
    /\ request' = [handler |-> "fetchTodos", id |-> <<>>, body |-> NoBody]
    /\ storageOps' = <<Call("Find", found.err)>>
    /\ response' =
          IF found.err # NoError
          THEN Json(StatusProcessing, "Failed to fetch Todo")
          ELSE [Json(StatusOK, "") EXCEPT !.data = TodoList(found.docs)]
    /\ UNCHANGED <<collection, objectIdCounter, now, created, deleted>>
    /\ UNCHANGED lifeVars

---------------------------------------------------------------------------
(* createTodo *)

CreateAcceptsAnyTitle(t) == FALSE

\* line 98: t.Title == ""
CreateTitleMissing(t) == t.Title = ""

NewTodoModelKeepingCompleted(t, oid, time) ==
    [_id |-> oid, title |-> t.Title, completed |-> t.Completed,
     createdAt |-> time]

\* lines 106-111: the document createTodo inserts.
NewTodoModel(t, oid, time) ==
    [_id |-> oid, title |-> t.Title, completed |-> FALSE, createdAt |-> time]

\* `time` is what time.Now() returns: no earlier than the last reading.
CreateTodo(body, time, dbFails) ==
    LET decoded == Decode(body)
        t == decoded.t
        oid == NewObjectId(time, objectIdCounter + 1)
        tm == NewTodoModel(t, oid, time)
        saved == Insert(collection, tm, dbFails)
    IN
    /\ Running
    /\ objectIdCounter < MaxCreates
    /\ request' = [handler |-> "createTodo", id |-> <<>>, body |-> body]
    /\ IF decoded.err
       THEN /\ response' = Json(StatusProcessing, "decode error")
            /\ storageOps' = <<>>
            /\ UNCHANGED <<collection, objectIdCounter, now, created>>
       ELSE IF CreateTitleMissing(t)
       THEN /\ response' = Json(StatusBadRequest, "The title is required")
            /\ storageOps' = <<>>
            /\ UNCHANGED <<collection, objectIdCounter, now, created>>
       ELSE /\ objectIdCounter' = objectIdCounter + 1
            /\ now' = time
            /\ storageOps' = <<Call("Insert", saved.err)>>
            /\ collection' = saved.coll
            /\ IF saved.err # NoError
               THEN /\ response' = Json(StatusProcessing, "Failed to save todo")
                    /\ UNCHANGED created
               ELSE /\ response' =
                         [Json(StatusCreated, "todo created successfully")
                             EXCEPT !.todo_id = Hex(tm._id)]
                    /\ created' = created + 1
    /\ UNCHANGED deleted
    /\ UNCHANGED lifeVars

---------------------------------------------------------------------------
(* deleteTodo *)

IsObjectIdHexCharsOnly(s) == \A i \in 1..Len(s) : IsHexChar(s[i])

\* line 133: bson.IsObjectIdHex(id)
DeleteIdValid(id) == IsObjectIdHex(id)

DeleteResponseProcessing(err) ==
    IF err # NoError
    THEN Json(StatusProcessing, "Failed to delete todo")
    ELSE Json(StatusOK, "Todo deleted successfully")

\* lines 142-154: the response after RemoveId.
DeleteResponse(err) ==
    IF err # NoError
    THEN Json(StatusBadRequest, "Failed to delete todo")
    ELSE Json(StatusOK, "Todo deleted successfully")

DeleteTodo(param, dbFails) ==
    LET id == TrimSpace(param)
        removed == RemoveId(collection, ObjectIdHex(id), dbFails)
    IN
    /\ Running
    /\ request' = [handler |-> "deleteTodo", id |-> param, body |-> NoBody]
    /\ IF ~DeleteIdValid(id)
       THEN /\ response' = Json(StatusBadRequest, "The id is invalid")
            /\ storageOps' = <<>>
            /\ UNCHANGED <<collection, deleted>>
       ELSE /\ storageOps' = <<Call("RemoveId", removed.err)>>
            /\ collection' = removed.coll
            /\ response' = DeleteResponse(removed.err)
            /\ deleted' = IF removed.err # NoError THEN deleted
                           ELSE deleted + 1
    /\ UNCHANGED <<objectIdCounter, now, created>>
    /\ UNCHANGED lifeVars

---------------------------------------------------------------------------
(* updateTodo *)

UpdateAcceptsAnyTitle(t) == FALSE

\* line 184: t.Title == ""
UpdateTitleMissing(t) == t.Title = ""

\* lines 196-198: the update document, with no $set around it.
UpdateDocument(t) == [title |-> t.Title, completed |-> t.Completed]

UpdateRejectionBodyFirst(id, body) ==
    IF Decode(body).err
    THEN Json(StatusProcessing, "The body is invalid")
    ELSE IF ~IsObjectIdHex(id)
    THEN Json(StatusBadRequest, "The id is invalid")
    ELSE IF UpdateTitleMissing(Decode(body).t)
    THEN Json(StatusBadRequest, "The title field is required")
    ELSE NothingWritten

\* lines 163-191: the response of the first check that fails, in the
\* handler's order; NothingWritten when all three pass.
UpdateRejection(id, body) ==
    IF ~IsObjectIdHex(id)
    THEN Json(StatusBadRequest, "The id is invalid")
    ELSE IF Decode(body).err
    THEN Json(StatusProcessing, "The body is invalid")
    ELSE IF UpdateTitleMissing(Decode(body).t)
    THEN Json(StatusBadRequest, "The title field is required")
    ELSE NothingWritten

UpdateTodo(param, body, dbFails) ==
    LET id == TrimSpace(param)
        rejection == UpdateRejection(id, body)
        t == Decode(body).t
        updated == Update(collection, ObjectIdHex(id), UpdateDocument(t),
                          dbFails)
    IN
    /\ Running
    /\ request' = [handler |-> "updateTodo", id |-> param, body |-> body]
    /\ IF rejection.written
       THEN /\ response' = rejection
            /\ storageOps' = <<>>
            /\ UNCHANGED collection
       ELSE /\ storageOps' = <<Call("Update", updated.err)>>
            /\ collection' = updated.coll
            /\ response' =
                  IF updated.err # NoError
                  THEN Json(StatusProcessing, "Failed to update todo")
                  ELSE NothingWritten
    /\ UNCHANGED <<objectIdCounter, now, created, deleted>>
    /\ UNCHANGED lifeVars

---------------------------------------------------------------------------
(* func main.  stopChan is unbuffered and package signal never blocks on a *)
(* send: an interrupt is handed to main only while main is blocked in the  *)
(* receive of line 235, and is dropped otherwise.                          *)

\* Lines 210-211: make(chan os.Signal); signal.Notify(stopChan, os.Interrupt).
Notify ==
    /\ mainPc = "start"
    /\ mainPc' = "notified"
    /\ UNCHANGED <<listener, inflight, idle, graceElapsed, signalled>>
    /\ UNCHANGED todoVars

\* Lines 213-235: the router and srv are built, the goroutine that runs
\* ListenAndServe is started, and main blocks on <-stopChan.
Serve ==
    /\ mainPc = "notified"
    /\ mainPc' = "waiting"
    /\ UNCHANGED <<listener, inflight, idle, graceElapsed, signalled>>
    /\ UNCHANGED todoVars

\* Lines 228-233: ListenAndServe binds the port, or fails and is logged.
\* After Shutdown it returns ErrServerClosed without listening.
Listen ==
    /\ Running
    /\ listener = "none"
    /\ listener' \in IF mainPc = "shuttingDown" THEN {"closed"}
                     ELSE {"open", "failed"}
    /\ UNCHANGED <<mainPc, inflight, idle, graceElapsed, signalled>>
    /\ UNCHANGED todoVars

\* An interrupt before signal.Notify has its default effect: the process
\* is killed.
InterruptKills ==
    /\ mainPc = "start"
    /\ mainPc' = "killed"
    /\ UNCHANGED <<listener, inflight, idle, graceElapsed, signalled>>
    /\ UNCHANGED todoVars

\* Line 235 <-stopChan: true when an interrupt finds main in the receive.
ReceiverReady(pc) == pc = "waiting"

\* An interrupt after signal.Notify: sent to stopChan without blocking.
Interrupt ==
    /\ mainPc \in {"notified", "waiting", "received", "shuttingDown"}
    /\ signalled' = TRUE
    /\ mainPc' = IF ReceiverReady(mainPc) THEN "received" ELSE mainPc
    /\ UNCHANGED <<listener, inflight, idle, graceElapsed>>
    /\ UNCHANGED todoVars

\* The server accepts a connection and starts serving its request.
Accept ==
    /\ listener = "open"
    /\ Running
    /\ inflight + idle < MaxConns
    /\ inflight' = inflight + 1
    /\ UNCHANGED <<mainPc, listener, idle, graceElapsed, signalled>>
    /\ UNCHANGED todoVars

\* A handler returns.  The connection is kept alive, unless the server is
\* shutting down: then it is closed.
Finish ==
    /\ inflight > 0
    /\ Running
    /\ inflight' = inflight - 1
    /\ idle' = IF mainPc = "shuttingDown" THEN idle ELSE idle + 1
    /\ UNCHANGED <<mainPc, listener, graceElapsed, signalled>>
    /\ UNCHANGED todoVars

\* The next request arrives on a kept-alive connection.
Reuse ==
    /\ idle > 0
    /\ mainPc \in {"waiting", "received"}
    /\ idle' = idle - 1
    /\ inflight' = inflight + 1
    /\ UNCHANGED <<mainPc, listener, graceElapsed, signalled>>
    /\ UNCHANGED todoVars

\* A kept-alive connection is closed by its client or by IdleTimeout.
Hangup ==
    /\ idle > 0
    /\ mainPc \in {"waiting", "received"}
    /\ idle' = idle - 1
    /\ UNCHANGED <<mainPc, listener, inflight, graceElapsed, signalled>>
    /\ UNCHANGED todoVars

\* Lines 236-238: context.WithTimeout(5s) and srv.Shutdown(ctx), which
\* first closes the listener and the idle connections.
BeginShutdown ==
    /\ mainPc = "received"
    /\ mainPc' = "shuttingDown"
    /\ listener' = IF listener = "open" THEN "closed" ELSE listener
    /\ idle' = 0
    /\ graceElapsed' = 0
    /\ UNCHANGED <<inflight, signalled>>
    /\ UNCHANGED todoVars

\* A second of the context's timeout passes.
GraceTick ==
    /\ mainPc = "shuttingDown"
    /\ graceElapsed < GracePeriod
    /\ graceElapsed' = graceElapsed + 1
    /\ UNCHANGED <<mainPc, listener, inflight, idle, signalled>>
    /\ UNCHANGED todoVars

\* srv.Shutdown returns when no connection is busy or when ctx is done.
ShutdownReturns(n, elapsed) == n = 0 \/ elapsed = GracePeriod

\* Lines 238-242: Shutdown returns and main returns; the process exits
\* with whatever requests are still running.
Exit ==
    /\ mainPc = "shuttingDown"
    /\ ShutdownReturns(inflight, graceElapsed)
    /\ mainPc' = "exited"
    /\ UNCHANGED <<listener, inflight, idle, graceElapsed, signalled>>
    /\ UNCHANGED todoVars

---------------------------------------------------------------------------
(* Spec: the requests served by a running server, from an empty            *)
(* collection.                                                             *)

Init ==
    /\ collection = <<>>
    /\ objectIdCounter = 0
    /\ now = 1
    /\ request = NoRequest
    /\ response = NothingWritten
    /\ storageOps = <<>>
    /\ created = 0
    /\ deleted = 0
    /\ mainPc = "waiting"
    /\ listener = "open"
    /\ inflight = 0
    /\ idle = 0
    /\ graceElapsed = 0
    /\ signalled = FALSE

Next ==
    \/ \E dbFails \in BOOLEAN : FetchTodos(dbFails)
    \/ \E body \in Bodies, time \in now..MaxClock, dbFails \in BOOLEAN :
          CreateTodo(body, time, dbFails)
    \/ \E param \in PathParams, dbFails \in BOOLEAN :
          DeleteTodo(param, dbFails)
    \/ \E param \in PathParams, body \in Bodies, dbFails \in BOOLEAN :
          UpdateTodo(param, body, dbFails)

Spec == Init /\ [][Next]_vars

---------------------------------------------------------------------------
(* LifeSpec: the process from its start to its exit.  main runs when it    *)
(* can, and the timeout of the shutdown context runs out; nothing obliges  *)
(* a handler to return or an interrupt to arrive.                          *)

LifeInit ==
    /\ collection = <<>>
    /\ objectIdCounter = 0
    /\ now = 1
    /\ request = NoRequest
    /\ response = NothingWritten
    /\ storageOps = <<>>
    /\ created = 0
    /\ deleted = 0
    /\ mainPc = "start"
    /\ listener = "none"
    /\ inflight = 0
    /\ idle = 0
    /\ graceElapsed = 0
    /\ signalled = FALSE

LifeNext ==
    \/ Notify
    \/ Serve
    \/ Listen
    \/ InterruptKills
    \/ Interrupt
    \/ Accept
    \/ Finish
    \/ Reuse
    \/ Hangup
    \/ BeginShutdown
    \/ GraceTick
    \/ Exit

LifeSpec ==
    /\ LifeInit
    /\ [][LifeNext]_vars
    /\ WF_vars(Notify)
    /\ WF_vars(Serve)
    /\ WF_vars(BeginShutdown)
    /\ WF_vars(GraceTick)
    /\ WF_vars(Exit)

---------------------------------------------------------------------------
(* What the last request asked for. *)

IsRequest(req, handler) == req.handler = handler

\* The {id} of the request as the handler sees it.
RequestId(req) == TrimSpace(req.id)

WellFormed(req) == IsObjectIdHex(RequestId(req))

RequestObjectId(req) == ObjectIdHex(RequestId(req))

\* The request's body decodes and carries a non-empty title.
ValidBody(req) == ~Decode(req.body).err /\ Decode(req.body).t.Title # ""

DatabaseFailed(ops) == \E i \in 1..Len(ops) : ops[i].err = ErrDatabase

---------------------------------------------------------------------------
(* C1: an update of an existing record by a valid id shows, in the next    *)
(* listing, the new title and completed under the same identifier and the  *)
(* same createdAt.                                                         *)

C1_UpdateKeepsIdAndCreatedAt ==
    [][(IsRequest(request', "updateTodo") /\ ~response'.written) =>
         LET id == Hex(RequestObjectId(request'))
             t == Decode(request'.body).t
             before == TodoList(collection)
             after == TodoList(collection')
         IN \A i \in 1..Len(before) :
                before[i].ID = id =>
                    /\ i \in 1..Len(after)
                    /\ after[i].ID = id
                    /\ after[i].Title = t.Title
                    /\ after[i].Completed = t.Completed
                    /\ after[i].CreatedAt = before[i].CreatedAt]_vars

\* What the code does keep of C1: the identifier, and the new values.
UpdateKeepsIdAndSetsValues ==
    [][(IsRequest(request', "updateTodo") /\ ~response'.written) =>
         LET id == Hex(RequestObjectId(request'))
             t == Decode(request'.body).t
             before == TodoList(collection)
             after == TodoList(collection')
         IN /\ Len(after) = Len(before)
            /\ \E i \in 1..Len(before) : before[i].ID = id
            /\ \A i \in 1..Len(before) :
                  IF before[i].ID = id
                  THEN /\ after[i].ID = id
                       /\ after[i].Title = t.Title
                       /\ after[i].Completed = t.Completed
                       /\ after[i].CreatedAt = ZeroTime
                  ELSE after[i] = before[i]]_vars

---------------------------------------------------------------------------
(* C2: from an empty collection, a listing answered 200 holds exactly      *)
(* N - M records, N the creates answered 201 and M the deletes answered    *)
(* 200 so far; no other request changes the count.                         *)

C2_ListCount ==
    (IsRequest(request, "fetchTodos") /\ response.status = StatusOK) =>
        /\ deleted <= created
        /\ Len(response.data) = created - deleted

C2_Witness ==
    /\ IsRequest(request, "fetchTodos")
    /\ response.status = StatusOK
    /\ created = 2
    /\ deleted = 1
    /\ Len(response.data) = 1

---------------------------------------------------------------------------
(* C3: after a create answered 201, exactly one record of the collection   *)
(* has the returned todo_id; it has the submitted title and                *)
(* completed = false, whatever completed the body carried.                 *)

C3_CreatedRecord ==
    (IsRequest(request, "createTodo") /\ response.status = StatusCreated) =>
        LET hits == {i \in 1..Len(collection) :
                        collection[i]._id = ObjectIdHex(response.todo_id)}
        IN /\ Cardinality(hits) = 1
           /\ \A i \in hits :
                 /\ TodoModel(collection[i]).Title = Decode(request.body).t.Title
                 /\ TodoModel(collection[i]).Title # ""
                 /\ TodoModel(collection[i]).Completed = FALSE

C3_Witness ==
    /\ IsRequest(request, "createTodo")
    /\ response.status = StatusCreated
    /\ Decode(request.body).t.Completed = TRUE
    /\ Len(collection) = 2

---------------------------------------------------------------------------
(* C4: a create whose title is the empty string is answered 400 "The title *)
(* is required" and leaves the collection as it was.                       *)

C4_EmptyTitleRejected ==
    [][(/\ IsRequest(request', "createTodo")
        /\ ~Decode(request'.body).err
        /\ Decode(request'.body).t.Title = "") =>
          /\ response' = Json(StatusBadRequest, "The title is required")
          /\ collection' = collection
          /\ storageOps' = <<>>]_vars

C4_Witness ==
    /\ IsRequest(request, "createTodo")
    /\ ~Decode(request.body).err
    /\ Decode(request.body).t.Title = ""
    /\ response.status = StatusBadRequest
    /\ Len(collection) = 1

---------------------------------------------------------------------------
(* C5: a delete with a well-formed id that no record has is answered 400   *)
(* "Failed to delete todo" and leaves the collection as it was.            *)

C5_DeleteMissing ==
    [][(/\ IsRequest(request', "deleteTodo")
        /\ WellFormed(request')
        /\ ~Exists(collection, RequestObjectId(request'))) =>
          /\ response' = Json(StatusBadRequest, "Failed to delete todo")
          /\ response'.status \in 400..499
          /\ collection' = collection]_vars

C5_Witness ==
    /\ IsRequest(request, "deleteTodo")
    /\ WellFormed(request)
    /\ storageOps = <<Call("RemoveId", ErrNotFound)>>
    /\ response.status = StatusBadRequest
    /\ Len(collection) = 2

---------------------------------------------------------------------------
(* C6: a delete with a malformed id is answered 400 "The id is invalid"    *)
(* and makes no call on the collection.                                    *)

C6_DeleteMalformed ==
    [][(IsRequest(request', "deleteTodo") /\ ~WellFormed(request')) =>
          /\ response' = Json(StatusBadRequest, "The id is invalid")
          /\ storageOps' = <<>>
          /\ collection' = collection]_vars

C6_Witness ==
    /\ IsRequest(request, "deleteTodo")
    /\ ~WellFormed(request)
    /\ response.message = "The id is invalid"
    /\ Len(collection) = 2

---------------------------------------------------------------------------
(* C7: every record of the collection has a non-empty title, after any     *)
(* sequence of requests.                                                   *)

C7_TitlesNonEmpty ==
    \A i \in 1..Len(collection) :
        /\ "title" \in DOMAIN collection[i]
        /\ collection[i].title # ""

C7_Witness ==
    /\ Len(collection) = 2
    /\ IsRequest(request, "updateTodo")
    /\ ~response.written
    /\ \E i \in 1..Len(collection) : "createdAt" \notin DOMAIN collection[i]

---------------------------------------------------------------------------
(* C8: an update with a well-formed id that no record has, and a valid     *)
(* body, ends as an update of an existing record does: no error response.  *)
(* (The statement as claimed; the database itself not failing.)            *)

C8_MissingIdLikeSuccess ==
    (/\ IsRequest(request, "updateTodo")
     /\ WellFormed(request)
     /\ ValidBody(request)
     /\ ~Exists(collection, RequestObjectId(request))
     /\ ~DatabaseFailed(storageOps)) =>
        response = NothingWritten

(* C8 as amended: such an update is answered with status 102 "Failed to    *)
(* update todo", which an update of an existing record is not, and leaves  *)
(* the collection as it was.                                               *)

C8_MissingIdReported ==
    [][(/\ IsRequest(request', "updateTodo")
        /\ WellFormed(request')
        /\ ValidBody(request')
        /\ ~Exists(collection, RequestObjectId(request'))) =>
          /\ response' = Json(StatusProcessing, "Failed to update todo")
          /\ response' # NothingWritten
          /\ collection' = collection]_vars

C8_Witness ==
    /\ IsRequest(request, "updateTodo")
    /\ WellFormed(request)
    /\ ValidBody(request)
    /\ storageOps = <<Call("Update", ErrNotFound)>>
    /\ response.status = StatusProcessing
    /\ Len(collection) = 1

---------------------------------------------------------------------------
(* C9: updateTodo checks the id, then the body, then the title, and stops  *)
(* at the first failure: 400 "The id is invalid" whatever the body, 102    *)
(* "The body is invalid", 400 "The title field is required"; in the three  *)
(* cases no call is made on the collection, which stays as it was.         *)

C9_UpdateValidationOrder ==
    [][IsRequest(request', "updateTodo") =>
         LET d == Decode(request'.body)
             untouched == storageOps' = <<>> /\ collection' = collection
         IN /\ ~WellFormed(request') =>
                  /\ response' = Json(StatusBadRequest, "The id is invalid")
                  /\ untouched
            /\ (WellFormed(request') /\ d.err) =>
                  /\ response' = Json(StatusProcessing, "The body is invalid")
                  /\ untouched
            /\ (WellFormed(request') /\ ~d.err /\ d.t.Title = "") =>
                  /\ response' =
                        Json(StatusBadRequest, "The title field is required")
                  /\ untouched]_vars

C9_Witness ==
    /\ IsRequest(request, "updateTodo")
    /\ ~WellFormed(request)
    /\ Decode(request.body).err
    /\ response.message = "The id is invalid"
    /\ Len(collection) = 1

---------------------------------------------------------------------------
(* C10: once the process has received an interrupt, it terminates: the     *)
(* server stops accepting, waits at most the grace period, and exits.      *)

C10_InterruptLeadsToExit == signalled ~> (mainPc = "exited")

\* What holds of the shutdown once main has received from stopChan.
ReceivedLeadsToExit == (mainPc = "received") ~> (mainPc = "exited")

ShutdownWithinGrace ==
    /\ graceElapsed <= GracePeriod
    /\ mainPc \in {"shuttingDown", "exited"} => listener # "open" /\ idle = 0
    /\ (mainPc = "exited" /\ inflight > 0) => graceElapsed = GracePeriod

=============================================================================
